---------------------------- MODULE Spec2Model ----------------------------
(***************************************************************************)
(* A model of the arbitrage bot of src/main.py (class ArbitrageBot).       *)
(*                                                                         *)
(* The bot is a single-threaded asyncio program: a coroutine runs without  *)
(* interruption from one suspending await to the next, so every action     *)
(* below is the code between two suspension points of one task.            *)
(*                                                                         *)
(* Numbers: Python floats are modelled by exact rationals <<num, den>>;    *)
(* prices, volumes and fees keep the values of the source.                 *)
(* Symbols: a symbol string is modelled by the sequence of its parts       *)
(* between slashes, <<"BTC","USDT">> for "BTC/USDT", so that                *)
(* `'/' in symbol` is Len(symbol) >= 2 and symbol.split('/') is the        *)
(* sequence itself.                                                        *)
(***************************************************************************)
EXTENDS Integers, Sequences, FiniteSets, TLC

VARIABLES
    mainPc,          \* position of main()/run(): "init", "gather", "exit"
    initIdx,         \* init_exchanges: index of the next name of config['exchanges']
    exchanges_rest,  \* self.exchanges_rest (keys)
    exchanges_pro,   \* self.exchanges_pro (keys)
    running,         \* self.running
    closed,          \* clients close_exchanges() has closed: <<kind, venue>>
    filterPc,        \* position of the refresh_filtered_pairs task
    fetched,         \* venue -> state of its _safe_fetch_tickers task of this cycle
    filtered_pairs,  \* self.filtered_pairs: venue -> set of symbols
    watchPc,         \* position of the watch_order_books task
    watchers,        \* the _watch_book tasks: <<venue, symbol>> -> state
    orderbooks,      \* self.orderbooks: venue -> symbol -> book
    obOrder,         \* key order of self.orderbooks (dict insertion order)
    feed,            \* the books the venues' streams deliver in this run
    budget,          \* stream events the environment may still produce
    triPc,           \* position of the triangle_loop task
    triLog,          \* triangles _evaluate_triangle reported in the last scan
    triEmits,        \* opportunities the last triangular scan emitted
    min_profit       \* config['arbitrage_min_profit_percent'], a rational

vars == <<mainPc, initIdx, exchanges_rest, exchanges_pro, running, closed,
          filterPc, fetched, filtered_pairs, watchPc, watchers,
          orderbooks, obOrder, feed, budget, triPc, triLog, triEmits,
          min_profit>>

----------------------------------------------------------------------------
(* Exact rationals <<num, den>>, den > 0, kept in lowest terms.            *)
(* With(v, F) is F(v) with v evaluated once.                               *)

With(v, F(_)) == CHOOSE r \in {F(x) : x \in {v}} : TRUE

Abs(x) == IF x < 0 THEN -x ELSE x

RECURSIVE Gcd(_, _)
Gcd(a, b) == IF b = 0 THEN a ELSE Gcd(b, a % b)

RNorm(n, d) ==
    With(<<n, d, Gcd(Abs(n), Abs(d))>>,
         LAMBDA p : IF p[3] = 0 THEN <<0, 1>>
                    ELSE IF p[2] < 0 THEN <<-(p[1] \div p[3]), -(p[2] \div p[3])>>
                    ELSE <<p[1] \div p[3], p[2] \div p[3]>>)

RInt(n) == <<n, 1>>

RMul(a, b) ==
    With(<<a, b>>,
         LAMBDA p : With(<<RNorm(p[1][1], p[2][2]), RNorm(p[2][1], p[1][2])>>,
                         LAMBDA q : RNorm(q[1][1] * q[2][1], q[1][2] * q[2][2])))

RInv(b) == With(b, LAMBDA p : IF p[1] < 0 THEN <<-p[2], -p[1]>> ELSE <<p[2], p[1]>>)

RDiv(a, b) == RMul(a, RInv(b))

RAdd(a, b) ==
    With(<<a, b>>,
         LAMBDA p : With(Gcd(p[1][2], p[2][2]),
                         LAMBDA g : RNorm(p[1][1] * (p[2][2] \div g) + p[2][1] * (p[1][2] \div g),
                                          p[1][2] * (p[2][2] \div g))))

RNeg(a) == With(a, LAMBDA p : <<-p[1], p[2]>>)

RSub(a, b) == RAdd(a, RNeg(b))

RLt(a, b) == With(<<a, b>>, LAMBDA p : p[1][1] * p[2][2] < p[2][1] * p[1][2])

RLe(a, b) == With(<<a, b>>, LAMBDA p : p[1][1] * p[2][2] <= p[2][1] * p[1][2])

----------------------------------------------------------------------------
(* Configuration                                                           *)

CONFIG ==
    [ exchanges              |-> <<"binance", "kraken", "coinbase">>,
      quote_currencies       |-> {"USDT", "USD", "BTC"},
      min_volume_usd         |-> 1000000,
      max_spread_percent     |-> <<1, 2>>,      \* 0.5
      arbitrage_min_profit_percent |-> <<1, 5>>, \* 0.2
      trade_amount_btc       |-> <<1, 100>> ]   \* 0.01

Venues == {CONFIG.exchanges[i] : i \in DOMAIN CONFIG.exchanges}

\* A venue the fee table does not list (the bot takes any config['exchanges']).
UnlistedVenue == "okx"

AllVenues == Venues \cup {UnlistedVenue}

FEES == [binance |-> <<1, 1000>>, kraken |-> <<2, 1000>>, coinbase |-> <<5, 1000>>]

DefaultFee == <<1, 1000>>

\* FEES.get(venue, 0.001)
FeeOf(venue) == IF venue \in DOMAIN FEES THEN FEES[venue] ELSE DefaultFee

----------------------------------------------------------------------------
(* Layer 1: the liquidity filter                                           *)

\* A ticker field: absent/None, a number, or a value that is not a number.
None == [k |-> "none", v |-> 0]
Str == [k |-> "str", v |-> 0]
Num(n) == [k |-> "num", v |-> n]

IsNone(f) == f.k = "none"
IsNum(f) == f.k = "num"

\* `base, quote = symbol.split('/')` raises ValueError unless there are two parts.
SplitRaises(symbol) == Len(symbol) # 2

\* `bid is None or ask is None or bid <= 0 or ask <= 0`, evaluated left to
\* right: comparing a non-number with 0 raises TypeError.
BidAskRaises(t) ==
    /\ ~IsNone(t.bid)
    /\ ~IsNone(t.ask)
    /\ \/ ~IsNum(t.bid)
       \/ IsNum(t.bid) /\ t.bid.v > 0 /\ ~IsNum(t.ask)

BidAskRejected(t) ==
    \/ IsNone(t.bid)
    \/ IsNone(t.ask)
    \/ t.bid.v <= 0
    \/ t.ask.v <= 0

\* spread_pct = (ask - bid) / bid * 100
SpreadPct(t) == RMul(RDiv(RInt(t.ask.v - t.bid.v), RInt(t.bid.v)), RInt(100))

SpreadTooWideMutant(t) == ~RLt(SpreadPct(t), CONFIG.max_spread_percent)

\* spread_pct > max_spread_percent
SpreadTooWide(t) == RLt(CONFIG.max_spread_percent, SpreadPct(t))

\* The checks of one loop body that come before the first statement that can raise.
SkippedEarly(symbol, t) ==
    \/ ~t.present
    \/ IsNone(t.quoteVolume)
    \/ ~IsNum(t.quoteVolume)
    \/ Len(symbol) < 2

\* The loop body of filter_pairs_by_liquidity raises for this item.
ItemRaises(symbol, t) ==
    /\ ~SkippedEarly(symbol, t)
    /\ \/ SplitRaises(symbol)
       \/ /\ symbol[2] \in CONFIG.quote_currencies
          /\ t.quoteVolume.v >= CONFIG.min_volume_usd
          /\ BidAskRaises(t)

\* The loop body reaches filtered[exchange].add(symbol).
ItemPasses(symbol, t) ==
    /\ ~SkippedEarly(symbol, t)
    /\ ~SplitRaises(symbol)
    /\ symbol[2] \in CONFIG.quote_currencies
    /\ ~(t.quoteVolume.v < CONFIG.min_volume_usd)
    /\ ~BidAskRaises(t)
    /\ ~BidAskRejected(t)
    /\ ~SpreadTooWide(t)

\* filter_pairs_by_liquidity(all_tickers): an exception, or the filtered sets.
\* all_tickers maps a venue to a function symbol -> ticker.
FilterRaises(all_tickers) ==
    \E venue \in DOMAIN all_tickers :
        \E symbol \in DOMAIN all_tickers[venue] :
            ItemRaises(symbol, all_tickers[venue][symbol])

FilterSetsMutant(all_tickers) ==
    [venue \in AllVenues |->
        IF venue \in DOMAIN all_tickers /\ venue = CONFIG.exchanges[1]
        THEN {symbol \in DOMAIN all_tickers[venue] :
                 ItemPasses(symbol, all_tickers[venue][symbol])}
        ELSE {}]

FilterSets(all_tickers) ==
    [venue \in AllVenues |->
        IF venue \in DOMAIN all_tickers
        THEN {symbol \in DOMAIN all_tickers[venue] :
                 ItemPasses(symbol, all_tickers[venue][symbol])}
        ELSE {}]

----------------------------------------------------------------------------
(* Layer 2 and 3: the order-book store and the pairwise detector           *)

\* An order book as the detector reads it: book['bids'][0][0] and
\* book['asks'][0][0] are the heads of bids and asks. kind "empty" is a book
\* without the keys 'bids' and 'asks' (an empty dict).
Book(bids, asks, nonce) ==
    [kind |-> "ok", bids |-> bids, asks |-> asks, nonce |-> nonce]

EmptyBook == [kind |-> "empty", bids |-> <<>>, asks |-> <<>>, nonce |-> 0]

InSeq(x, seq) == \E k \in DOMAIN seq : seq[k] = x

StorePutMutant(store, venue, symbol, book) ==
    [store EXCEPT ![venue] =
        [s \in DOMAIN store[venue] \cup {symbol} |->
            IF s # symbol THEN store[venue][s]
            ELSE IF symbol \in DOMAIN store[venue]
                 THEN [book EXCEPT !.asks = store[venue][symbol].asks]
                 ELSE book]]

\* self.orderbooks[exchange_name][symbol] = book, on a defaultdict(dict)
StorePut(store, venue, symbol, book) ==
    [store EXCEPT ![venue] =
        [s \in DOMAIN store[venue] \cup {symbol} |->
            IF s = symbol THEN book ELSE store[venue][s]]]

OrderPut(order, venue) == IF InSeq(venue, order) THEN order ELSE Append(order, venue)

CollectBooksMutant(store, order, symbol) ==
    LET kept == SelectSeq(obOrder, LAMBDA ex : symbol \in DOMAIN orderbooks[ex])
    IN  [k \in DOMAIN kept |-> [ex |-> kept[k], book |-> orderbooks[kept[k]][symbol]]]

\* The list `books` of detect_opportunities_for_symbol: the (venue, book)
\* pairs holding the symbol, in the key order of self.orderbooks.
RECURSIVE CollectBooks(_, _, _)
CollectBooks(store, order, symbol) ==
    IF order = <<>> THEN <<>>
    ELSE LET ex == Head(order)
             rest == CollectBooks(store, Tail(order), symbol)
         IN  IF symbol \in DOMAIN store[ex]
             THEN <<[ex |-> ex, book |-> store[ex][symbol]]>> \o rest
             ELSE rest

\* `if not book_a['bids'] or not book_b['asks']` raises KeyError on a book
\* without these keys.
PairRaises(a, b) ==
    \/ a.book.kind = "empty"
    \/ a.book.bids # <<>> /\ b.book.kind = "empty"

PairSkipped(a, b) == a.book.bids = <<>> \/ b.book.asks = <<>>

\* profit_net_pct of buying on ex_b at ask_b and selling on ex_a at bid_a
NetPct(bid_a, ask_b, ex_a, ex_b) ==
    LET fee_buy == FeeOf(ex_b)
        fee_sell == FeeOf(ex_a)
        amount == CONFIG.trade_amount_btc
        cost == RMul(RMul(RInt(ask_b), amount), RAdd(RInt(1), fee_buy))
        revenue == RMul(RMul(RInt(bid_a), amount), RSub(RInt(1), fee_sell))
        profit_net == RSub(revenue, cost)
    IN  IF cost[1] > 0 THEN RMul(RDiv(profit_net, cost), RInt(100)) ELSE RInt(0)

ProfitEnoughMutant(pct, minimum) == RLt(minimum, pct)

\* profit_net_pct >= self.config['arbitrage_min_profit_percent']
ProfitEnough(pct, minimum) == RLe(minimum, pct)

\* The body of the inner loop reaches execute_arbitrage for the pair (a, b).
PairEmits(a, b, minimum) ==
    /\ ~PairSkipped(a, b)
    /\ Head(a.book.bids) > Head(b.book.asks)
    /\ ProfitEnough(NetPct(Head(a.book.bids), Head(b.book.asks), a.ex, b.ex), minimum)

\* The arguments of execute_arbitrage(ex_b, ex_a, symbol, 'buy', 'sell', ask_b, bid_a, amount)
Opportunity(a, b) ==
    [buy |-> b.ex, sell |-> a.ex, ask |-> Head(b.book.asks), bid |-> Head(a.book.bids)]

\* The double loop `for i ... for j in i+1 ...` over books, from the pair
\* (i, j) on: the first pair in loop order at which the body raises or reaches
\* the await of execute_arbitrage (where the task is suspended), or the end of
\* the loops.
PairBefore(p, q) == p[1] < q[1] \/ (p[1] = q[1] /\ p[2] <= q[2])

FirstPair(stops) == CHOOSE x \in stops : \A y \in stops : PairBefore(x, y)

ScanFrom(books, i, j, minimum) ==
    With({p \in (1..Len(books)) \X (1..Len(books)) :
             /\ p[1] < p[2]
             /\ PairBefore(<<i, j>>, p)
             /\ \/ PairRaises(books[p[1]], books[p[2]])
                \/ PairEmits(books[p[1]], books[p[2]], minimum)},
         LAMBDA stops :
             IF stops = {}
             THEN [kind |-> "end", i |-> Len(books) + 1, j |-> Len(books) + 2]
             ELSE With(FirstPair(stops),
                       LAMBDA p : [kind |-> IF PairRaises(books[p[1]], books[p[2]])
                                            THEN "raise" ELSE "emit",
                                   i |-> p[1], j |-> p[2]]))

----------------------------------------------------------------------------
(* Layer 3: the triangular detector                                        *)

\* common_coins, in the order Python compares the strings
CommonCoins == <<"ADA", "BNB", "BTC", "ETH", "SOL", "USD", "USDT">>

CoinRank(coin) == CHOOSE k \in DOMAIN CommonCoins : CommonCoins[k] = coin

\* coins.intersection(common_coins): the bases and quotes of the venue's
\* symbols, as the sequence of the common coins among them.
VenueCoins(ex_books) ==
    SelectSeq(CommonCoins,
              LAMBDA coin : \E sym \in DOMAIN ex_books :
                                Len(sym) >= 2 /\ (sym[1] = coin \/ sym[2] = coin))

NoPair == <<>>

\* _find_pair: a symbol of the venue whose base and quote are coin1 and coin2,
\* in either order (the symbols of the model hold one symbol per pair of coins).
FindPair(ex_books, coin1, coin2) ==
    LET hits == {sym \in DOMAIN ex_books :
                    /\ Len(sym) >= 2
                    /\ \/ sym[1] = coin1 /\ sym[2] = coin2
                       \/ sym[1] = coin2 /\ sym[2] = coin1}
    IN  IF hits = {} THEN NoPair ELSE CHOOSE sym \in hits : TRUE

\* `if not book_ab or not book_bc or not book_ca: return`
Falsy(book) == book.kind = "empty"

TripleOrderedMutant(coin_a, coin_b, coin_c) ==
    coin_a # coin_b /\ coin_b # coin_c /\ coin_a # coin_c

\* neither `coin_a >= coin_b` nor `coin_c <= coin_b`
TripleOrdered(coin_a, coin_b, coin_c) ==
    CoinRank(coin_a) < CoinRank(coin_b) /\ CoinRank(coin_b) < CoinRank(coin_c)

\* The body of the three nested loops for one (coin_a, coin_b, coin_c): the
\* triangles _evaluate_triangle reports (one or none).
TriangleAt(ex_books, coin_a, coin_b, coin_c) ==
    LET pair_ab == FindPair(ex_books, coin_a, coin_b)
        pair_bc == FindPair(ex_books, coin_b, coin_c)
        pair_ca == FindPair(ex_books, coin_c, coin_a)
    IN  IF /\ TripleOrdered(coin_a, coin_b, coin_c)
           /\ pair_ab # NoPair /\ pair_bc # NoPair /\ pair_ca # NoPair
           /\ ~Falsy(ex_books[pair_ab])
           /\ ~Falsy(ex_books[pair_bc])
           /\ ~Falsy(ex_books[pair_ca])
        THEN <<[a |-> coin_a, b |-> coin_b, c |-> coin_c,
                ab |-> pair_ab, bc |-> pair_bc, ca |-> pair_ca]>>
        ELSE <<>>

\* The three nested loops over coins, flattened: k counts the iterations of the
\* innermost loop.
RECURSIVE TriangleLoop(_, _, _)
TriangleLoop(ex_books, coins, k) ==
    LET n == Len(coins)
    IN  IF k >= n * n * n THEN <<>>
        ELSE TriangleAt(ex_books,
                        coins[(k \div (n * n)) + 1],
                        coins[((k \div n) % n) + 1],
                        coins[(k % n) + 1])
             \o TriangleLoop(ex_books, coins, k + 1)

\* detect_triangular_opportunities(exchange_name): the triangles reported.
DetectTriangular(store, exchange_name) ==
    LET ex_books == store[exchange_name]
    IN  IF Cardinality(DOMAIN ex_books) < 3 THEN <<>>
        ELSE TriangleLoop(ex_books, VenueCoins(ex_books), 0)

\* What _evaluate_triangle hands to execute_arbitrage: it only logs the triangle.
EvaluateTriangleEmits(store, exchange_name, triangle) == FALSE

----------------------------------------------------------------------------
(* The symbols and the replies of the venues                               *)

BTCUSDT == <<"BTC", "USDT">>
ETHUSDT == <<"ETH", "USDT">>
ETHBTC == <<"ETH", "BTC">>
SOLUSDT == <<"SOL", "USDT">>
SOLBTC == <<"SOL", "BTC">>
XRPUSDT == <<"XRP", "USDT">>
XRPBTC == <<"XRP", "BTC">>
DOGEUSDT == <<"DOGE", "USDT">>

\* The symbols of the venues' market catalogs (pro_ex.markets); DOGEUSDT is
\* traded but missing from the catalog.
Markets == {BTCUSDT, ETHUSDT, ETHBTC, SOLUSDT, SOLBTC, XRPUSDT, XRPBTC}

StoreSymbols == Markets \cup {DOGEUSDT}

Ticker(quoteVolume, bid, ask) ==
    [present |-> TRUE, quoteVolume |-> quoteVolume, bid |-> bid, ask |-> ask]

GoodTicker == Ticker(Num(1000000), Num(200), Num(201))

NoTickers == <<>>

\* What fetch_tickers() of a venue may return in the whole-program
\* specification: nothing, liquid pairs, an illiquid pair, a ticker whose bid
\* is not a number.
RestReplies ==
    { NoTickers,
      [s \in {BTCUSDT} |-> GoodTicker],
      [s \in {BTCUSDT, ETHUSDT} |-> GoodTicker],
      [s \in {ETHUSDT} |-> Ticker(Num(999999), Num(200), Num(201))],
      [s \in {BTCUSDT} |-> Ticker(Num(1000000), Str, Num(201))] }

----------------------------------------------------------------------------
(* Tasks                                                                   *)

Keys == AllVenues \X StoreSymbols

\* A _watch_book coroutine that has not run yet.
NoWatcher ==
    [pc |-> "none", books |-> <<>>, i |-> 0, j |-> 0, emits |-> {}, errs |-> 0]

NoFetch == [st |-> "none", failed |-> FALSE, tickers |-> NoTickers]

PendingFetch == [st |-> "pending", failed |-> FALSE, tickers |-> NoTickers]

\* `while self.running:` of a loop whose body starts with an await
LoopHead(isRunning, waiting) == IF isRunning THEN waiting ELSE "done"

\* ---- init_exchanges and run ----

ConfigLen == Len(CONFIG.exchanges)

\* One iteration of the loop of init_exchanges. outcome "ok": both clients are
\* built; "rest_fail": load_markets() (or the REST constructor) raises;
\* "pro_fail": the streaming client's constructor raises after the REST client
\* was stored.
InitRestKept(outcome) == outcome \in {"ok", "pro_fail"}

InitExchange(outcome) ==
    /\ mainPc = "init"
    /\ initIdx <= ConfigLen
    /\ LET name == CONFIG.exchanges[initIdx]
       IN  /\ exchanges_rest' = IF InitRestKept(outcome)
                                THEN exchanges_rest \cup {name}
                                ELSE exchanges_rest
           /\ exchanges_pro' = IF outcome = "ok"
                               THEN exchanges_pro \cup {name}
                               ELSE exchanges_pro
    /\ initIdx' = initIdx + 1
    /\ UNCHANGED <<mainPc, running, closed, filterPc, fetched, filtered_pairs,
                   watchPc, watchers, orderbooks, obOrder, feed, budget, triPc,
                   triLog, triEmits, min_profit>>

\* run(): `if not self.exchanges_pro: return`; main() then returns.
RunAbort ==
    /\ mainPc = "init"
    /\ initIdx > ConfigLen
    /\ exchanges_pro = {}
    /\ mainPc' = "exit"
    /\ UNCHANGED <<initIdx, exchanges_rest, exchanges_pro, running, closed,
                   filterPc, fetched, filtered_pairs, watchPc, watchers,
                   orderbooks, obOrder, feed, budget, triPc, triLog, triEmits,
                   min_profit>>

\* run(): the three create_task calls, then `await asyncio.gather(...)`.
RunLaunch ==
    /\ mainPc = "init"
    /\ initIdx > ConfigLen
    /\ exchanges_pro # {}
    /\ mainPc' = "gather"
    /\ filterPc' = "ready"
    /\ watchPc' = "ready"
    /\ triPc' = "ready"
    /\ UNCHANGED <<initIdx, exchanges_rest, exchanges_pro, running, closed,
                   fetched, filtered_pairs, watchers, orderbooks, obOrder, feed,
                   budget, triLog, triEmits, min_profit>>

\* ---- refresh_filtered_pairs ----

\* fetch_all_tickers up to its first `await task`: one task per REST client.
StartFetch ==
    fetched' = [v \in AllVenues |-> IF v \in exchanges_rest THEN PendingFetch ELSE NoFetch]

\* The first step of the task (the event loop starts tasks in creation order).
FilterStart ==
    /\ filterPc = "ready"
    /\ filterPc' = "fetch"
    /\ StartFetch
    /\ UNCHANGED <<mainPc, initIdx, exchanges_rest, exchanges_pro, running, closed,
                   filtered_pairs, watchPc, watchers, orderbooks, obOrder, feed,
                   budget, triPc, triLog, triEmits, min_profit>>

\* The tasks created by run() have all run their first step: the event loop
\* runs them, in creation order, before it handles any I/O or timer.
Started == filterPc # "ready" /\ watchPc # "ready" /\ triPc # "ready"

\* _safe_fetch_tickers: fetch_tickers() returns, or raises and {} is returned.
FetchReturn(reply) == [st |-> "done", failed |-> FALSE, tickers |-> reply]

FetchRaise == [st |-> "done", failed |-> TRUE, tickers |-> NoTickers]

FetchDone(venue) ==
    /\ Started
    /\ filterPc = "fetch"
    /\ fetched[venue].st = "pending"
    /\ \/ \E reply \in RestReplies :
             fetched' = [fetched EXCEPT ![venue] = FetchReturn(reply)]
       \/ fetched' = [fetched EXCEPT ![venue] = FetchRaise]
    /\ UNCHANGED <<mainPc, initIdx, exchanges_rest, exchanges_pro, running, closed,
                   filterPc, filtered_pairs, watchPc, watchers, orderbooks,
                   obOrder, feed, budget, triPc, triLog, triEmits, min_profit>>

FetchResultsMutant(fetchState) ==
    IF \E x \in AllVenues : fetchState[x].failed
    THEN [v \in {x \in AllVenues : fetchState[x].st = "done"} |-> NoTickers]
    ELSE [v \in {x \in AllVenues : fetchState[x].st = "done"} |-> fetchState[v].tickers]

\* The dict `results` of fetch_all_tickers once every task is done.
FetchResults(fetchState) ==
    [v \in {x \in AllVenues : fetchState[x].st = "done"} |-> fetchState[v].tickers]

FilterApplyPruneMutant ==
    /\ filterPc = "fetch"
    /\ \A v \in AllVenues : fetched[v].st # "pending"
    /\ IF FilterRaises(FetchResults(fetched))
       THEN /\ filterPc' = "failed"
            /\ UNCHANGED <<filtered_pairs, watchers, orderbooks>>
       ELSE /\ filtered_pairs' = FilterSets(FetchResults(fetched))
            /\ filterPc' = LoopHead(running, "sleep")
            /\ watchers' = [k \in DOMAIN watchers |->
                               IF k[2] \in filtered_pairs'[k[1]] THEN watchers[k]
                               ELSE [watchers[k] EXCEPT !.pc = "done"]]
            /\ orderbooks' = [v \in AllVenues |->
                                 [sym \in DOMAIN orderbooks[v] \cap filtered_pairs'[v] |->
                                     orderbooks[v][sym]]]
    /\ UNCHANGED <<mainPc, initIdx, exchanges_rest, exchanges_pro, running, closed,
                   fetched, watchPc, obOrder, feed, budget, triPc, triLog, triEmits,
                   min_profit>>

\* fetch_all_tickers returns; filter_pairs_by_liquidity runs; its result is
\* stored, or its exception leaves the task; then `while self.running`.
FilterApply ==
    /\ filterPc = "fetch"
    /\ \A v \in AllVenues : fetched[v].st # "pending"
    /\ IF FilterRaises(FetchResults(fetched))
       THEN /\ filterPc' = "failed"
            /\ UNCHANGED filtered_pairs
       ELSE /\ filtered_pairs' = FilterSets(FetchResults(fetched))
            /\ filterPc' = LoopHead(running, "sleep")
    /\ UNCHANGED <<mainPc, initIdx, exchanges_rest, exchanges_pro, running, closed,
                   fetched, watchPc, watchers, orderbooks, obOrder, feed, budget,
                   triPc, triLog, triEmits, min_profit>>

\* asyncio.sleep(refresh_filter_minutes * 60) is over: the next fetch starts.
FilterWake ==
    /\ filterPc = "sleep"
    /\ filterPc' = "fetch"
    /\ StartFetch
    /\ UNCHANGED <<mainPc, initIdx, exchanges_rest, exchanges_pro, running, closed,
                   filtered_pairs, watchPc, watchers, orderbooks, obOrder, feed,
                   budget, triPc, triLog, triEmits, min_profit>>

\* ---- watch_order_books and _watch_book ----

\* The coroutines watch_order_books hands to asyncio.gather.
WatchTasks ==
    {k \in Keys : /\ k[1] \in exchanges_pro
                  /\ k[2] \in filtered_pairs[k[1]]
                  /\ k[2] \in Markets}

WatchStart ==
    /\ watchPc = "ready"
    /\ filterPc # "ready"
    /\ IF WatchTasks = {}
       THEN /\ watchPc' = "done"
            /\ UNCHANGED watchers
       ELSE /\ watchPc' = "gather"
            /\ watchers' = [k \in WatchTasks |-> [NoWatcher EXCEPT !.pc = "start"]]
    /\ UNCHANGED <<mainPc, initIdx, exchanges_rest, exchanges_pro, running, closed,
                   filterPc, fetched, filtered_pairs, orderbooks, obOrder, feed,
                   budget, triPc, triLog, triEmits, min_profit>>

\* The first step of a _watch_book task: `while self.running`, then the await.
WatcherStart(key) ==
    /\ watchers[key].pc = "start"
    /\ watchers' = [watchers EXCEPT ![key].pc = LoopHead(running, "recv")]
    /\ UNCHANGED <<mainPc, initIdx, exchanges_rest, exchanges_pro, running, closed,
                   filterPc, fetched, filtered_pairs, watchPc, orderbooks,
                   obOrder, feed, budget, triPc, triLog, triEmits, min_profit>>

OnWatcherErrorMutant(w) == [w EXCEPT !.pc = "failed", !.errs = @ + 1]

OnWatcherErrorGiveUp(w) ==
    [w EXCEPT !.pc = IF w.errs >= 1 THEN "done" ELSE "backoff", !.errs = @ + 1]

\* `except Exception`: the error is logged and the task awaits asyncio.sleep(1).
OnWatcherError(w) == [w EXCEPT !.pc = "backoff", !.errs = @ + 1]

\* The state of a watcher whose scan of `books` went on from a pair and ended
\* as `r` says: suspended in execute_arbitrage, in the except clause, or back
\* at `while self.running`.
AfterScan(w, books, r) ==
    With(<<r, [w EXCEPT !.books = books, !.i = r.i, !.j = r.j]>>,
         LAMBDA p :
             CASE p[1].kind = "emit" ->
                    [p[2] EXCEPT !.pc = "exec",
                                 !.emits = @ \cup {Opportunity(books[p[1].i], books[p[1].j])}]
               [] p[1].kind = "raise" -> OnWatcherError(p[2])
               [] OTHER -> [p[2] EXCEPT !.pc = LoopHead(running, "recv")])

\* watch_order_book returns a book: it is stored and the pairwise scan for the
\* symbol runs up to its first dispatch, an exception, or its end.
Deliver(key, book) ==
    /\ watchers[key].pc = "recv"
    /\ budget > 0
    /\ budget' = budget - 1
    /\ LET store == StorePut(orderbooks, key[1], key[2], book)
           order == OrderPut(obOrder, key[1])
           books == CollectBooks(store, order, key[2])
           fresh == [watchers[key] EXCEPT !.emits = {}]
       IN  /\ orderbooks' = store
           /\ obOrder' = order
           /\ watchers' = [watchers EXCEPT ![key] =
                              AfterScan(fresh, books, ScanFrom(books, 1, 2, min_profit))]
    /\ UNCHANGED <<mainPc, initIdx, exchanges_rest, exchanges_pro, running, closed,
                   filterPc, fetched, filtered_pairs, watchPc, feed, triPc,
                   triLog, triEmits, min_profit>>

\* watch_order_book raises.
StreamError(key) ==
    /\ watchers[key].pc = "recv"
    /\ budget > 0
    /\ budget' = budget - 1
    /\ watchers' = [watchers EXCEPT ![key] = OnWatcherError(@)]
    /\ UNCHANGED <<mainPc, initIdx, exchanges_rest, exchanges_pro, running, closed,
                   filterPc, fetched, filtered_pairs, watchPc, orderbooks,
                   obOrder, feed, triPc, triLog, triEmits, min_profit>>

\* asyncio.sleep(0.1) of execute_arbitrage is over: the scan goes on with the
\* next pair of the list it collected.
ExecResume(key) ==
    /\ watchers[key].pc = "exec"
    /\ LET w == watchers[key]
       IN  watchers' = [watchers EXCEPT ![key] =
                           AfterScan(w, w.books, ScanFrom(w.books, w.i, w.j + 1, min_profit))]
    /\ UNCHANGED <<mainPc, initIdx, exchanges_rest, exchanges_pro, running, closed,
                   filterPc, fetched, filtered_pairs, watchPc, orderbooks,
                   obOrder, feed, budget, triPc, triLog, triEmits, min_profit>>

\* asyncio.sleep(1) of the except clause is over: `while self.running`.
BackoffDone(key) ==
    /\ watchers[key].pc = "backoff"
    /\ watchers' = [watchers EXCEPT ![key].pc = LoopHead(running, "recv")]
    /\ UNCHANGED <<mainPc, initIdx, exchanges_rest, exchanges_pro, running, closed,
                   filterPc, fetched, filtered_pairs, watchPc, orderbooks,
                   obOrder, feed, budget, triPc, triLog, triEmits, min_profit>>

\* asyncio.gather(*tasks) of watch_order_books returns.
WatchGatherDone ==
    /\ watchPc = "gather"
    /\ \A k \in DOMAIN watchers : watchers[k].pc = "done"
    /\ watchPc' = "done"
    /\ UNCHANGED <<mainPc, initIdx, exchanges_rest, exchanges_pro, running, closed,
                   filterPc, fetched, filtered_pairs, watchers, orderbooks,
                   obOrder, feed, budget, triPc, triLog, triEmits, min_profit>>

\* ---- triangle_loop ----

TriStart ==
    /\ triPc = "ready"
    /\ watchPc # "ready"
    /\ triPc' = LoopHead(running, "sleep")
    /\ UNCHANGED <<mainPc, initIdx, exchanges_rest, exchanges_pro, running, closed,
                   filterPc, fetched, filtered_pairs, watchPc, watchers,
                   orderbooks, obOrder, feed, budget, triLog, triEmits, min_profit>>

\* asyncio.sleep(5) is over: one scan per streaming client (no await in a scan
\* suspends), then `while self.running`.
TriWake ==
    /\ triPc = "sleep"
    /\ triLog' = [v \in AllVenues |->
                     IF v \in exchanges_pro THEN DetectTriangular(orderbooks, v) ELSE <<>>]
    /\ triEmits' = UNION {{<<v, k>> : k \in {n \in DOMAIN triLog'[v] :
                                  EvaluateTriangleEmits(orderbooks, v, triLog'[v][n])}} :
                           v \in AllVenues}
    /\ triPc' = LoopHead(running, "sleep")
    /\ UNCHANGED <<mainPc, initIdx, exchanges_rest, exchanges_pro, running, closed,
                   filterPc, fetched, filtered_pairs, watchPc, watchers,
                   orderbooks, obOrder, feed, budget, min_profit>>

\* ---- main and shutdown ----

\* A task of run()'s gather ended with an exception: it reaches main()'s
\* `except Exception`, and shutdown() clears the flag.
MainCatch ==
    /\ mainPc = "gather"
    /\ filterPc = "failed"
    /\ running' = FALSE
    /\ mainPc' = "closing"
    /\ UNCHANGED <<initIdx, exchanges_rest, exchanges_pro, closed, filterPc,
                   fetched, filtered_pairs, watchPc, watchers, orderbooks,
                   obOrder, feed, budget, triPc, triLog, triEmits, min_profit>>

\* shutdown() called by the embedding program while the tasks run.
OperatorShutdown ==
    /\ mainPc = "gather"
    /\ running
    /\ running' = FALSE
    /\ mainPc' = "closing"
    /\ UNCHANGED <<initIdx, exchanges_rest, exchanges_pro, closed, filterPc,
                   fetched, filtered_pairs, watchPc, watchers, orderbooks,
                   obOrder, feed, budget, triPc, triLog, triEmits, min_profit>>

\* close_exchanges(): every stored client is closed.
CloseDone ==
    /\ mainPc = "closing"
    /\ closed' = {<<"rest", v>> : v \in exchanges_rest} \cup {<<"pro", v>> : v \in exchanges_pro}
    /\ mainPc' = "closed"
    /\ UNCHANGED <<initIdx, exchanges_rest, exchanges_pro, running, filterPc,
                   fetched, filtered_pairs, watchPc, watchers, orderbooks,
                   obOrder, feed, budget, triPc, triLog, triEmits, min_profit>>

Cancelled(pc) == IF pc \in {"none", "done", "failed"} THEN pc ELSE "cancelled"

\* main() returns and asyncio.run cancels the tasks that are left.
MainExit ==
    /\ mainPc = "closed"
    /\ mainPc' = "exit"
    /\ filterPc' = Cancelled(filterPc)
    /\ watchPc' = Cancelled(watchPc)
    /\ triPc' = Cancelled(triPc)
    /\ watchers' = [k \in DOMAIN watchers |-> [watchers[k] EXCEPT !.pc = Cancelled(@)]]
    /\ UNCHANGED <<initIdx, exchanges_rest, exchanges_pro, running, closed, fetched,
                   filtered_pairs, orderbooks, obOrder, feed, budget, triLog,
                   triEmits, min_profit>>

----------------------------------------------------------------------------
(* Specifications                                                          *)

NoStore == [v \in AllVenues |-> <<>>]

NoLog == [v \in AllVenues |-> <<>>]

\* ---- The whole program: asyncio.run(main()) ----

Init ==
    /\ mainPc = "init"
    /\ initIdx = 1
    /\ exchanges_rest = {}
    /\ exchanges_pro = {}
    /\ running = TRUE
    /\ closed = {}
    /\ filterPc = "none"
    /\ fetched = [v \in AllVenues |-> NoFetch]
    /\ filtered_pairs = [v \in AllVenues |-> {}]
    /\ watchPc = "none"
    /\ watchers = <<>>
    /\ orderbooks = NoStore
    /\ obOrder = <<>>
    /\ feed = {}
    /\ budget = 0
    /\ triPc = "none"
    /\ triLog = NoLog
    /\ triEmits = {}
    /\ min_profit = CONFIG.arbitrage_min_profit_percent

\* The watcher actions are left out: watch_order_books runs its first step
\* before any fetch of the first filter cycle has returned, so it reads an
\* empty filtered universe in every run of the program.
Next ==
    \/ \E outcome \in {"ok", "rest_fail", "pro_fail"} : InitExchange(outcome)
    \/ RunAbort
    \/ RunLaunch
    \/ FilterStart
    \/ \E venue \in AllVenues : FetchDone(venue)
    \/ FilterApply
    \/ FilterWake
    \/ WatchStart
    \/ TriStart
    \/ TriWake
    \/ MainCatch
    \/ CloseDone
    \/ MainExit

Spec == Init /\ [][Next]_vars

\* ---- The filter alone: filter_pairs_by_liquidity on a cycle's replies ----

FilterVolumes == {None, Str, Num(999999), Num(1000000)}
FilterBids == {None, Str, Num(0), Num(200)}
FilterAsks == {None, Str, Num(0), Num(201), Num(202)}
FilterSymbols == {BTCUSDT, <<"ETH", "EUR">>, <<"BTCUSDT">>, <<"BTC", "USDT", "PERP">>}

FilterTickers ==
    {Ticker(quoteVolume, bid, ask) :
        quoteVolume \in FilterVolumes, bid \in FilterBids, ask \in FilterAsks}
    \cup {[present |-> FALSE, quoteVolume |-> None, bid |-> None, ask |-> None]}

FilterReplies ==
    RestReplies \cup UNION {[{symbol} -> FilterTickers] : symbol \in FilterSymbols}

FilterVenues == {"binance", "kraken"}

FilterInit ==
    /\ mainPc = "gather"
    /\ initIdx = ConfigLen + 1
    /\ exchanges_rest = FilterVenues
    /\ exchanges_pro = FilterVenues
    /\ running = TRUE
    /\ closed = {}
    /\ filterPc = "fetch"
    /\ \E first \in {FetchReturn(reply) : reply \in FilterReplies} \cup {FetchRaise} :
          \E second \in {FetchReturn(reply) : reply \in RestReplies} \cup {FetchRaise} :
             fetched = [v \in AllVenues |->
                           CASE v = "binance" -> first
                             [] v = "kraken" -> second
                             [] OTHER -> NoFetch]
    /\ filtered_pairs \in {[v \in AllVenues |-> {}],
                           [v \in AllVenues |-> IF v \in FilterVenues THEN {ETHUSDT} ELSE {}]}
    /\ watchPc = "done"
    /\ watchers = <<>>
    /\ orderbooks = NoStore
    /\ obOrder = <<>>
    /\ feed = {}
    /\ budget = 0
    /\ triPc = "sleep"
    /\ triLog = NoLog
    /\ triEmits = {}
    /\ min_profit = CONFIG.arbitrage_min_profit_percent

FilterNext == FilterApply

FilterSpec == FilterInit /\ [][FilterNext]_vars

\* ---- The streaming layer: watch_order_books, triangle_loop and shutdown
\* ---- on a bot whose venues are initialised and whose filtered universe is
\* ---- populated when watch_order_books starts.

MaxEvents == 3

WatchFeed == {Book(<<100>>, <<101>>, 1), Book(<<103>>, <<104>>, 2), EmptyBook}

Universe(binance, kraken, coinbase) ==
    [v \in AllVenues |->
        CASE v = "binance" -> binance
          [] v = "kraken" -> kraken
          [] v = "coinbase" -> coinbase
          [] OTHER -> {}]

WatchUniverses ==
    { Universe({BTCUSDT}, {BTCUSDT}, {BTCUSDT}),
      Universe({ETHBTC, ETHUSDT, BTCUSDT}, {}, {}),
      Universe({BTCUSDT, DOGEUSDT}, {BTCUSDT}, {}) }

WatchInit ==
    /\ mainPc = "gather"
    /\ initIdx = ConfigLen + 1
    /\ exchanges_rest = Venues
    /\ exchanges_pro = Venues
    /\ running = TRUE
    /\ closed = {}
    /\ filterPc = "sleep"
    /\ fetched = [v \in AllVenues |-> NoFetch]
    /\ filtered_pairs \in WatchUniverses
    /\ watchPc = "ready"
    /\ watchers = <<>>
    /\ orderbooks = NoStore
    /\ obOrder = <<>>
    /\ feed = WatchFeed
    /\ budget = MaxEvents
    /\ triPc = "ready"
    /\ triLog = NoLog
    /\ triEmits = {}
    /\ min_profit = CONFIG.arbitrage_min_profit_percent

WatchStep ==
    \/ WatchStart
    \/ \E key \in DOMAIN watchers : WatcherStart(key)
    \/ \E key \in DOMAIN watchers : ExecResume(key)
    \/ \E key \in DOMAIN watchers : BackoffDone(key)
    \/ WatchGatherDone
    \/ TriStart
    \/ TriWake
    \/ CloseDone

WatchNext ==
    \/ WatchStep
    \/ \E key \in DOMAIN watchers : \E book \in feed : Deliver(key, book)
    \/ \E key \in DOMAIN watchers : StreamError(key)
    \/ OperatorShutdown

WatchSpec == WatchInit /\ [][WatchNext]_vars

\* The event loop resumes every task that is ready and every timer expires;
\* nothing makes a venue send a book or makes the operator shut down.
FairWatchSpec == WatchSpec /\ WF_vars(WatchStep)

\* ---- The periodic refresh beside the streaming layer: a bot whose venues
\* ---- are initialised, whose first filter run is over and whose watchers
\* ---- start on its result.

RefreshEvents == 2

RefreshVenues == {"binance", "kraken"}

RefreshInit ==
    /\ mainPc = "gather"
    /\ initIdx = ConfigLen + 1
    /\ exchanges_rest = RefreshVenues
    /\ exchanges_pro = RefreshVenues
    /\ running = TRUE
    /\ closed = {}
    /\ filterPc = "sleep"
    /\ fetched = [v \in AllVenues |-> NoFetch]
    /\ filtered_pairs = Universe({BTCUSDT}, {BTCUSDT}, {})
    /\ watchPc = "ready"
    /\ watchers = <<>>
    /\ orderbooks = NoStore
    /\ obOrder = <<>>
    /\ feed = WatchFeed
    /\ budget = RefreshEvents
    /\ triPc = "sleep"
    /\ triLog = NoLog
    /\ triEmits = {}
    /\ min_profit = CONFIG.arbitrage_min_profit_percent

RefreshStep ==
    \/ WatchStart
    \/ \E key \in DOMAIN watchers : WatcherStart(key)
    \/ \E key \in DOMAIN watchers : ExecResume(key)
    \/ \E key \in DOMAIN watchers : BackoffDone(key)
    \/ WatchGatherDone
    \/ FilterWake
    \/ \E venue \in AllVenues : FetchDone(venue)
    \/ FilterApply
    \/ MainCatch
    \/ CloseDone

RefreshNext ==
    \/ RefreshStep
    \/ \E key \in DOMAIN watchers : \E book \in feed : Deliver(key, book)
    \/ \E key \in DOMAIN watchers : StreamError(key)

RefreshSpec == RefreshInit /\ [][RefreshNext]_vars

\* The event loop resumes every task that is ready, every timer expires and
\* every ticker request is answered; nothing makes a venue send a book.
FairRefreshSpec == RefreshSpec /\ WF_vars(RefreshStep)

\* ---- The pairwise detector alone: one stream event on a populated store ----

DetectEvents == 1

DetectSides == {<<>>, <<100>>, <<101>>}

DetectFeed == {Book(bids, asks, 1) : bids \in DetectSides, asks \in DetectSides}

DetectVenues == {"binance", "coinbase", UnlistedVenue}

\* 0.2 (the configured value), 799/1001 (the net profit of bid 101 against
\* ask 100 at a fee of 0.1% on both sides) and 1
MinProfits == {<<1, 5>>, <<799, 1001>>, <<1, 1>>}

DetectStores ==
    UNION {{[order |-> <<a>>, store |-> StorePut(NoStore, a, BTCUSDT, x)] :
               x \in DetectFeed} : a \in DetectVenues}
    \cup UNION {{[order |-> <<a, b>>,
                  store |-> StorePut(StorePut(NoStore, a, BTCUSDT, x), b, BTCUSDT, y)] :
                    x \in DetectFeed, y \in DetectFeed} :
                <<a, b>> \in {p \in DetectVenues \X DetectVenues : p[1] # p[2]}}

DetectInit ==
    /\ mainPc = "gather"
    /\ initIdx = ConfigLen + 1
    /\ exchanges_rest = DetectVenues
    /\ exchanges_pro = DetectVenues
    /\ running = TRUE
    /\ closed = {}
    /\ filterPc = "sleep"
    /\ fetched = [v \in AllVenues |-> NoFetch]
    /\ filtered_pairs = [v \in AllVenues |-> IF v \in DetectVenues THEN {BTCUSDT} ELSE {}]
    /\ watchPc = "gather"
    /\ watchers = [k \in DetectVenues \X {BTCUSDT} |-> [NoWatcher EXCEPT !.pc = "recv"]]
    /\ \E st \in DetectStores : orderbooks = st.store /\ obOrder = st.order
    /\ feed = DetectFeed
    /\ budget = DetectEvents
    /\ triPc = "sleep"
    /\ triLog = NoLog
    /\ triEmits = {}
    /\ min_profit \in MinProfits

DetectNext ==
    \/ \E key \in DOMAIN watchers : \E book \in feed : Deliver(key, book)
    \/ \E key \in DOMAIN watchers : ExecResume(key)

DetectSpec == DetectInit /\ [][DetectNext]_vars

\* ---- Scans that overlap: two stream events on a store that holds the
\* ---- symbol for two of three venues.

StaleEvents == 2

StaleFeed == {Book(<<103>>, <<104>>, 1), Book(<<100>>, <<101>>, 2)}

StaleStores ==
    UNION {{[order |-> <<p[1], p[2]>>,
             store |-> StorePut(StorePut(NoStore, p[1], BTCUSDT, x), p[2], BTCUSDT, y)] :
               x \in StaleFeed, y \in StaleFeed} :
           p \in {q \in Venues \X Venues : q[1] # q[2]}}

StaleInit ==
    /\ mainPc = "gather"
    /\ initIdx = ConfigLen + 1
    /\ exchanges_rest = Venues
    /\ exchanges_pro = Venues
    /\ running = TRUE
    /\ closed = {}
    /\ filterPc = "sleep"
    /\ fetched = [v \in AllVenues |-> NoFetch]
    /\ filtered_pairs = Universe({BTCUSDT}, {BTCUSDT}, {BTCUSDT})
    /\ watchPc = "gather"
    /\ watchers = [k \in Venues \X {BTCUSDT} |-> [NoWatcher EXCEPT !.pc = "recv"]]
    /\ \E st \in StaleStores : orderbooks = st.store /\ obOrder = st.order
    /\ feed = StaleFeed
    /\ budget = StaleEvents
    /\ triPc = "sleep"
    /\ triLog = NoLog
    /\ triEmits = {}
    /\ min_profit = CONFIG.arbitrage_min_profit_percent

StaleNext ==
    \/ \E key \in DOMAIN watchers : \E book \in feed : Deliver(key, book)
    \/ \E key \in DOMAIN watchers : ExecResume(key)

StaleSpec == StaleInit /\ [][StaleNext]_vars

\* ---- The triangular detector alone: one scan of a populated store ----

TriBooks == {Book(<<1>>, <<1>>, 1), Book(<<2>>, <<2>>, 1), EmptyBook}

\* The dicts over subsets of Markets with books of TriBooks.
TriDicts == UNION {[symbols -> TriBooks] : symbols \in SUBSET Markets}

TriInit ==
    /\ mainPc = "gather"
    /\ initIdx = ConfigLen + 1
    /\ exchanges_rest = Venues
    /\ exchanges_pro = Venues
    /\ running = TRUE
    /\ closed = {}
    /\ filterPc = "sleep"
    /\ fetched = [v \in AllVenues |-> NoFetch]
    /\ filtered_pairs = [v \in AllVenues |-> IF v = "binance" THEN Markets ELSE {}]
    /\ watchPc = "gather"
    /\ watchers = [k \in {"binance"} \X Markets |-> [NoWatcher EXCEPT !.pc = "recv"]]
    /\ \E dict \in TriDicts : orderbooks = [NoStore EXCEPT !["binance"] = dict]
    /\ obOrder = <<"binance">>
    /\ feed = TriBooks
    /\ budget = 0
    /\ triPc = "sleep"
    /\ triLog = NoLog
    /\ triEmits = {}
    /\ min_profit = CONFIG.arbitrage_min_profit_percent

TriNext == TriWake

TriSpec == TriInit /\ [][TriNext]_vars

----------------------------------------------------------------------------
(* Properties                                                              *)

\* The pairwise scan of a watcher has gone past the pair (i, j) of its list.
ScanPassed(w, i, j) ==
    \/ w.pc \in {"recv", "done"} /\ w.books # <<>>
    \/ w.pc = "exec" /\ (i < w.i \/ (i = w.i /\ j <= w.j))

ScanComplete(w) == w.pc \in {"recv", "done"} /\ w.books # <<>>

\* The fee of a venue in thousandths.
FeeMille(venue) ==
    LET rate == IF venue \in {"binance", "kraken", "coinbase"} THEN FEES[venue] ELSE <<1, 1000>>
    IN  (rate[1] * 1000) \div rate[2]

\* net% >= minimum for buying at ask (fee of buyVenue) and selling at bid (fee
\* of sellVenue): with cost = ask*amount*(1+feeBuy) and revenue =
\* bid*amount*(1-feeSell), (revenue-cost)/cost*100 >= minimum, and 0 >= minimum
\* when cost <= 0. The amount, positive, cancels.
NetAtLeast(bid, ask, buyVenue, sellVenue, minimum) ==
    LET cost == ask * (1000 + FeeMille(buyVenue))
        revenue == bid * (1000 - FeeMille(sellVenue))
    IN  IF cost > 0
        THEN (revenue - cost) * 100 * minimum[2] >= minimum[1] * cost
        ELSE 0 >= minimum[1]

\* Selling on the venue of x and buying on the venue of y is profitable enough.
Profitable(x, y) ==
    /\ x.book.kind = "ok" /\ y.book.kind = "ok"
    /\ x.book.bids # <<>> /\ y.book.asks # <<>>
    /\ Head(x.book.bids) > Head(y.book.asks)
    /\ NetAtLeast(Head(x.book.bids), Head(y.book.asks), y.ex, x.ex, min_profit)

\* C1: once the scan triggered by an update is complete, for every pair of
\* venues holding the symbol a profitable discrepancy in either direction has
\* been dispatched, whatever the order of the venues in the store.
C1_BothDirections ==
    \A key \in DOMAIN watchers :
        LET w == watchers[key]
        IN  ScanComplete(w) =>
                \A i \in DOMAIN w.books : \A j \in DOMAIN w.books :
                    (i # j /\ Profitable(w.books[i], w.books[j]))
                        => Opportunity(w.books[i], w.books[j]) \in w.emits

\* C2: for every direction the scan has tested (the venue earlier in the store
\* sells, the later one buys) with bid > ask, the opportunity is dispatched if
\* and only if net% >= the minimum; bid 101 against ask 100 at 0.1% on both
\* sides is dispatched at a minimum of 0.2% and not at 1%.
C2_EmitIffNetAtLeastMin ==
    \A key \in DOMAIN watchers :
        LET w == watchers[key]
        IN  \A i \in DOMAIN w.books : \A j \in DOMAIN w.books :
                LET a == w.books[i]
                    b == w.books[j]
                    tested == /\ i < j /\ ScanPassed(w, i, j)
                              /\ a.book.bids # <<>> /\ b.book.asks # <<>>
                              /\ Head(a.book.bids) > Head(b.book.asks)
                    sent == [buy |-> b.ex, sell |-> a.ex,
                             ask |-> Head(b.book.asks), bid |-> Head(a.book.bids)] \in w.emits
                    example == /\ Head(a.book.bids) = 101 /\ Head(b.book.asks) = 100
                               /\ FeeMille(a.ex) = 1 /\ FeeMille(b.ex) = 1
                IN  tested =>
                      /\ sent <=> NetAtLeast(Head(a.book.bids), Head(b.book.asks),
                                             b.ex, a.ex, min_profit)
                      /\ (example /\ min_profit = <<1, 5>>) => sent
                      /\ (example /\ min_profit = <<1, 1>>) => ~sent

\* A completed scan that dispatched bid 101 (binance) against ask 100 (a venue
\* without a fee entry) at the minimum of 0.2%.
C2_Witness ==
    \E key \in DOMAIN watchers :
        LET w == watchers[key]
        IN  /\ ScanComplete(w)
            /\ min_profit = <<1, 5>>
            /\ [buy |-> UnlistedVenue, sell |-> "binance", ask |-> 100, bid |-> 101] \in w.emits

\* C3: the sequence number of the book stored for a key never decreases.
C3_StoredSequenceMonotonic ==
    [][\A v \in AllVenues : \A sym \in DOMAIN orderbooks[v] :
          (orderbooks[v][sym].kind = "ok" /\ orderbooks'[v][sym].kind = "ok")
              => orderbooks'[v][sym].nonce >= orderbooks[v][sym].nonce]_vars

\* Every watcher and the triangle loop have ended (the filter loop is asleep
\* throughout the streaming specification).
LoopsEnded ==
    /\ \A key \in DOMAIN watchers : watchers[key].pc = "done"
    /\ triPc = "done"

C5_WatcherErrorsContained ==
    [][\A key \in DOMAIN watchers :
          /\ (key \in DOMAIN watchers' /\ watchers'[key].errs > watchers[key].errs) =>
                /\ watchers'[key].pc = "backoff"
                /\ \A other \in DOMAIN watchers \ {key} : watchers'[other] = watchers[other]
                /\ <<mainPc, filterPc, watchPc, triPc, running>>'
                       = <<mainPc, filterPc, watchPc, triPc, running>>
          /\ (watchers[key].pc = "backoff" /\ watchers'[key].pc # "backoff") =>
                watchers'[key].pc = IF running THEN "recv" ELSE "done"]_vars

\* A watcher that took an error awaits its stream again, beside a live one.
C5_Witness ==
    \E key \in DOMAIN watchers : \E other \in DOMAIN watchers \ {key} :
        /\ running
        /\ watchers[key].errs > 0
        /\ watchers[key].pc = "recv"
        /\ watchers[other].pc \in {"recv", "exec"}

\* C6: no error of a filter or triangle iteration ends its task or reaches
\* main(): the tasks never fail and shutdown is never entered.
C6_TimerLoopErrorsCaught ==
    /\ filterPc # "failed"
    /\ triPc # "failed"
    /\ mainPc \notin {"closing", "closed"}

\* The conditions of the liquidity filter on one ticker.
Eligible(symbol, t) ==
    /\ t.present
    /\ t.quoteVolume.k = "num" /\ t.quoteVolume.v >= CONFIG.min_volume_usd
    /\ Len(symbol) = 2 /\ symbol[2] \in CONFIG.quote_currencies
    /\ t.bid.k = "num" /\ t.bid.v > 0
    /\ t.ask.k = "num" /\ t.ask.v > 0
    /\ (t.ask.v - t.bid.v) * 100 * CONFIG.max_spread_percent[2]
           <= CONFIG.max_spread_percent[1] * t.bid.v

\* Bid and ask are numbers or missing and the symbol has at most one slash.
WellFormed(symbol, t) ==
    /\ t.bid.k # "str"
    /\ t.ask.k # "str"
    /\ Len(symbol) <= 2

CycleEnded == filterPc \in {"sleep", "done", "failed"}

CycleCompleted == filterPc \in {"sleep", "done"}

\* C7: a cycle on well-formed tickers completes, and a completed cycle leaves
\* for each venue exactly the eligible symbols of its reply: a spread equal to
\* the maximum passes, a larger one and a volume below the minimum do not.
C7_FilterExact ==
    /\ (CycleEnded /\ \A v \in AllVenues : \A sym \in DOMAIN fetched[v].tickers :
                          WellFormed(sym, fetched[v].tickers[sym]))
           => CycleCompleted
    /\ CycleCompleted =>
          \A v \in AllVenues :
              /\ filtered_pairs[v] =
                    {sym \in DOMAIN fetched[v].tickers : Eligible(sym, fetched[v].tickers[sym])}
              /\ \A sym \in DOMAIN fetched[v].tickers :
                    LET t == fetched[v].tickers[sym]
                    IN  /\ (t.present /\ t.quoteVolume = Num(999999)) => sym \notin filtered_pairs[v]
                        /\ (t = Ticker(Num(1000000), Num(200), Num(201)) /\ sym = BTCUSDT)
                               => sym \in filtered_pairs[v]
                        /\ (t.present /\ t.bid = Num(200) /\ t.ask = Num(202))
                               => sym \notin filtered_pairs[v]

\* A completed cycle that kept a symbol whose spread equals the maximum.
C7_Witness ==
    /\ CycleCompleted
    /\ BTCUSDT \in DOMAIN fetched["binance"].tickers
    /\ fetched["binance"].tickers[BTCUSDT] = Ticker(Num(1000000), Num(200), Num(201))
    /\ filtered_pairs["binance"] = {BTCUSDT}

\* The replies of the cycle without those of `venue`.
RepliesWithout(venue) ==
    [v \in {x \in AllVenues \ {venue} : fetched[x].st = "done"} |-> fetched[v].tickers]

\* C8: a cycle in which the fetch of a venue failed ends as the cycle of the
\* other venues alone would (the failure is not fatal), and when it completes
\* the venue's set is empty and every other set is that of the other venues alone.
C8_FetchFailureIsolated ==
    \A venue \in AllVenues :
        (CycleEnded /\ fetched[venue].failed) =>
            /\ (filterPc = "failed") <=> FilterRaises(RepliesWithout(venue))
            /\ CycleCompleted =>
                   /\ filtered_pairs[venue] = {}
                   /\ \A v \in AllVenues \ {venue} :
                          filtered_pairs[v] =
                              IF v \in DOMAIN RepliesWithout(venue)
                              THEN {sym \in DOMAIN RepliesWithout(venue)[v] :
                                       Eligible(sym, RepliesWithout(venue)[v][sym])}
                              ELSE {}

\* A completed cycle in which one venue failed and the other kept a symbol.
C8_Witness ==
    /\ CycleCompleted
    /\ fetched["kraken"].failed
    /\ filtered_pairs["kraken"] = {}
    /\ filtered_pairs["binance"] = {BTCUSDT}

\* init_exchanges has gone past `venue` without storing its streaming client.
InitFailed(venue) ==
    /\ \E k \in 1..(initIdx - 1) : k <= ConfigLen /\ CONFIG.exchanges[k] = venue
    /\ venue \notin exchanges_pro

\* C9: a venue whose initialisation failed is never polled, streamed or
\* scanned, and when no venue is initialised no task is started.
C9_FailedVenueExcluded ==
    /\ \A venue \in Venues :
          InitFailed(venue) =>
              /\ fetched[venue].st = "none"
              /\ \A key \in DOMAIN watchers : key[1] # venue
              /\ triLog[venue] = <<>>
    /\ (initIdx > ConfigLen /\ exchanges_pro = {}) =>
          (filterPc = "none" /\ watchPc = "none" /\ triPc = "none")

\* The factor of converting `from` over the edge `sym`: the best bid when
\* `from` is the base (it is sold), 1/best ask when it is the quote.
Factor(book, sym, from) ==
    IF sym[1] = from
    THEN RInt(Head(book.bids))
    ELSE RDiv(RInt(1), RInt(Head(book.asks)))

\* net% of the cycle a -> b -> c -> a: (multiplier - 1) * 100 less the three fees.
TriangleNet(ex_books, venue, t) ==
    LET multiplier == RMul(RMul(Factor(ex_books[t.ab], t.ab, t.a),
                                Factor(ex_books[t.bc], t.bc, t.b)),
                           Factor(ex_books[t.ca], t.ca, t.c))
        fees == RMul(RMul(RInt(3), FeeOf(venue)), RInt(100))
    IN  RSub(RMul(RSub(multiplier, RInt(1)), RInt(100)), fees)

\* C10: every triangle the scan evaluated is emitted if and only if the net%
\* of its cycle a -> b -> c -> a is at least the minimum.
C10_TriangleEmitIffNet ==
    \A venue \in AllVenues : \A k \in DOMAIN triLog[venue] :
        LET t == triLog[venue][k]
            ex_books == orderbooks[venue]
            sided == \A sym \in {t.ab, t.bc, t.ca} :
                         ex_books[sym].bids # <<>> /\ ex_books[sym].asks # <<>>
        IN  sided =>
              (<<venue, k>> \in triEmits <=> RLe(min_profit, TriangleNet(ex_books, venue, t)))

\* The coins of a reported triangle.
TriangleCoins(t) == {t.a, t.b, t.c}

\* C11: every triangle a scan evaluates is made of coins of the allow-list in
\* the order a < b < c, and no two evaluations of a scan have the same coins.
C11_TriangleTriplesOnce ==
    \A venue \in AllVenues : \A k \in DOMAIN triLog[venue] :
        LET t == triLog[venue][k]
        IN  /\ TriangleCoins(t) \subseteq {"BTC", "ETH", "USDT", "USD", "BNB", "SOL", "ADA"}
            /\ CoinRank(t.a) < CoinRank(t.b) /\ CoinRank(t.b) < CoinRank(t.c)
            /\ \A m \in DOMAIN triLog[venue] :
                   TriangleCoins(triLog[venue][m]) = TriangleCoins(t) => m = k

\* A scan that evaluated two triangles on a store that also holds the three
\* edges of a triangle through XRP, a coin outside the allow-list.
C11_Witness ==
    /\ Len(triLog["binance"]) = 2
    /\ {XRPUSDT, XRPBTC, BTCUSDT} \subseteq DOMAIN orderbooks["binance"]
    /\ \A sym \in {XRPUSDT, XRPBTC, BTCUSDT} : orderbooks["binance"][sym].kind = "ok"

\* C12: the list a watcher's detection collected holds, for the watcher's own
\* venue, the book the store holds for its key: the book of the update that
\* triggered the detection (only this watcher writes the key, and it writes
\* and collects without a suspension between the two).
C12_DetectionSeesOwnUpdate ==
    \A key \in DOMAIN watchers :
        LET w == watchers[key]
            written == key[2] \in DOMAIN orderbooks[key[1]]
        IN  /\ written => w.books # <<>>
            /\ w.books # <<>> =>
                   /\ written
                   /\ \E k \in DOMAIN w.books :
                          /\ w.books[k].ex = key[1]
                          /\ w.books[k].book = orderbooks[key[1]][key[2]]

\* A detection suspended in a dispatch that collected its own second update
\* beside the book of another venue.
C12_Witness ==
    \E key \in DOMAIN watchers :
        LET w == watchers[key]
        IN  /\ w.pc = "exec"
            /\ Len(w.books) >= 2
            /\ \E k \in DOMAIN w.books :
                   w.books[k].ex = key[1] /\ w.books[k].book = Book(<<103>>, <<104>>, 2)

\* C13: when the program has exited, every client init_exchanges stored has
\* been closed.
C13_ConnectionsReleased ==
    mainPc = "exit" =>
        /\ \A v \in exchanges_rest : <<"rest", v>> \in closed
        /\ \A v \in exchanges_pro : <<"pro", v>> \in closed

\* C15: whatever the number of errors a watcher has taken, an error leaves it
\* in its backoff, the backoff ends at the await of the stream while the flag
\* is set, and a watcher ends only when the flag is cleared.
C15_RetryWithoutLimit ==
    [][\A key \in DOMAIN watchers :
          key \in DOMAIN watchers' =>
              LET before == watchers[key]
                  after == watchers'[key]
              IN  /\ after.errs > before.errs =>
                         after.errs = before.errs + 1 /\ after.pc = "backoff"
                  /\ (before.pc = "backoff" /\ after # before /\ running) =>
                         after = [before EXCEPT !.pc = "recv"]
                  /\ (after.pc = "done" /\ before.pc # "done") => ~running]_vars

\* A watcher awaits its stream again after as many consecutive errors as the
\* stream produced events, while the flag is set.
C15_Witness ==
    \E key \in DOMAIN watchers :
        /\ running
        /\ watchers[key].errs = MaxEvents
        /\ watchers[key].books = <<>>
        /\ watchers[key].pc = "recv"

\* C16: every book the store holds and every book a detection collected is
\* one whole delivered snapshot, never the bids of one and the asks of another.
C16_WholeSnapshots ==
    /\ \A v \in AllVenues : \A sym \in DOMAIN orderbooks[v] : orderbooks[v][sym] \in feed
    /\ \A key \in DOMAIN watchers : \A k \in DOMAIN watchers[key].books :
           watchers[key].books[k].book \in feed

\* A detection suspended in a dispatch holds the prior snapshot of a key whose
\* stored snapshot has been replaced since.
C16_Witness ==
    \E key \in DOMAIN watchers :
        /\ watchers[key].pc = "exec"
        /\ \E k \in DOMAIN watchers[key].books :
               LET e == watchers[key].books[k]
               IN  /\ e.ex # key[1]
                   /\ e.book.kind = "ok"
                   /\ orderbooks[e.ex][key[2]].kind = "ok"
                   /\ orderbooks[e.ex][key[2]] # e.book

\* C19: watch_order_books reads the filtered universe only once the first
\* filter run has stored its result.
C19_WatchersFromInitialFilter ==
    [][(watchPc = "ready" /\ watchPc' \in {"gather", "done"})
          => filterPc \in {"sleep", "done"}]_vars

\* C14: a symbol of an initialised venue's market catalog that is in the
\* filtered universe once watch_order_books has run eventually has a watcher
\* (unless the bot is shut down first).
C14_RefreshReachesSubscriptions ==
    \A key \in RefreshVenues \X {BTCUSDT, ETHUSDT} :
        (/\ watchPc \notin {"none", "ready"}
         /\ key[1] \in exchanges_pro
         /\ key[2] \in Markets
         /\ key[2] \in filtered_pairs[key[1]])
            ~> (key \in DOMAIN watchers \/ ~running)

\* The sets filter_pairs_by_liquidity computes from a cycle's replies.
EligibleSets(fetchState) ==
    [v \in AllVenues |->
        IF fetchState[v].st = "done"
        THEN {sym \in DOMAIN fetchState[v].tickers : Eligible(sym, fetchState[v].tickers[sym])}
        ELSE {}]

\* C17: every change of the filtered universe is one step that replaces it by
\* the complete result of the cycle, for all venues at once, and the pass of
\* watch_order_books over the universe is one step on one version of it.
C17_UniverseSwappedWhole ==
    [][/\ filtered_pairs' # filtered_pairs =>
             /\ fetched' = fetched
             /\ filtered_pairs' = EligibleSets(fetched)
       /\ (watchPc = "ready" /\ watchPc' = "gather") =>
             DOMAIN watchers' = {k \in Keys : /\ k[1] \in exchanges_pro
                                              /\ k[2] \in Markets
                                              /\ k[2] \in filtered_pairs[k[1]]}]_vars

\* A refresh replaced the sets of both venues while their watchers run.
C17_Witness ==
    /\ filterPc = "sleep"
    /\ filtered_pairs["binance"] = {BTCUSDT, ETHUSDT}
    /\ filtered_pairs["kraken"] = {}
    /\ \E key \in DOMAIN watchers : watchers[key].pc = "recv"

\* C18: a step of the filter refresh (the timer, a ticker reply, the filter
\* itself) changes no watcher, no entry of the order-book store and not the
\* running flag.
C18_RefreshFrame ==
    [][(filterPc' # filterPc \/ fetched' # fetched \/ filtered_pairs' # filtered_pairs)
          => /\ watchers' = watchers
             /\ watchPc' = watchPc
             /\ orderbooks' = orderbooks
             /\ obOrder' = obOrder
             /\ running' = running]_vars

\* A refresh dropped a symbol whose watcher still awaits its stream and whose
\* book is still stored.
C18_Witness ==
    /\ filterPc = "sleep"
    /\ running
    /\ filtered_pairs["binance"] = {}
    /\ <<"binance", BTCUSDT>> \in DOMAIN watchers
    /\ watchers[<<"binance", BTCUSDT>>].pc = "recv"
    /\ BTCUSDT \in DOMAIN orderbooks["binance"]

\* C20: every opportunity a scan dispatches carries the best bid and the best
\* ask the store holds for its two venues at the moment of the dispatch.
C20_DispatchFromCurrentStore ==
    [][\A key \in DOMAIN watchers :
          \A o \in watchers'[key].emits \ watchers[key].emits :
              LET sold == orderbooks'[o.sell][key[2]]
                  bought == orderbooks'[o.buy][key[2]]
              IN  /\ sold.bids # <<>> /\ o.bid = Head(sold.bids)
                  /\ bought.asks # <<>> /\ o.ask = Head(bought.asks)]_vars

============================================================================
